---- MODULE Spec2Model ----
(***************************************************************************)
(* ii-part: a FUSE file system that exposes the partitions of an Apple II  *)
(* Focus / Zip / MicroDrive disk image as flat files.                      *)
(*                                                                         *)
(* The repository holds two builds of the program: src/main.cpp (the       *)
(* older "focus_mounter") and src/unnamed/part_000 (the newer              *)
(* "ii-part-fuse").  Detectors, decoders and the file operations are the   *)
(* same text in both; setup() and the fuse_operations table differ.  The   *)
(* variable build says which of the two programs is running.               *)
(*                                                                         *)
(* Bytes are 0..255.  A buffer or the backing store is a sequence of       *)
(* bytes; byte i of the C code (0-based) is element i+1.  A name or a      *)
(* path is a sequence of bytes too.                                        *)
(*                                                                         *)
(* Widths: unsigned is 32 bits, off_t and size_t are 64 bits.  TLC's       *)
(* integers are 32-bit, so the 32-bit product start * 512 is written as    *)
(* (start % 2^23) * 512, which is the same number, and the 64-bit          *)
(* unsigned sum offset + size is written by cases on its sign.  The        *)
(* inputs are chosen so that every value the model computes is below 2^31. *)
(***************************************************************************)
EXTENDS Integers, Sequences, FiniteSets, TLC

VARIABLES
    build,            \* "main" (src/main.cpp) or "part" (src/unnamed/part_000)
    options,          \* struct options: rw, mountpoint
    store,            \* the backing store: whether open(2) succeeds, and its kind
    disk,             \* the backing store's bytes
    pc,               \* position of main(): "main", "setup_done", "serving", "exit"
    exitcode,         \* the process's exit status once pc = "exit", else -1
    fd,               \* "closed", "O_RDONLY" or "O_RDWR"
    files,            \* std::vector<file_info> files
    total_blocks,     \* off_t total_blocks (part_000 only)
    part_operations,  \* the fuse_operations table given to fuse_main
    last,             \* the request the dispatch loop is answering, and its result
    lastw,            \* the latest write request that transferred bytes
    nwrites           \* number of write requests that transferred bytes

vars == <<build, options, store, disk, pc, exitcode, fd, files,
          total_blocks, part_operations, last, lastw, nwrites>>

----------------------------------------------------------------------------
(* Bounds of the model *)

\* how many writes that transfer bytes one run may perform
MaxWrites == 1

----------------------------------------------------------------------------
(* Program constants *)

SectorSize == 512
HeaderSize == 512 * 3
ENOENT == 2
EBADF  == 9
EINVAL == 22
ENOSPC == 28
ENOSYS == 38
\* width of unsigned, in bits
UnsignedBits == 32

Byte == 0 .. 255

RECURSIVE Pow2(_)
Pow2(n) == IF n = 0 THEN 1 ELSE 2 * Pow2(n - 1)

Min(a, b) == IF a < b THEN a ELSE b

\* n zero bytes
Zeros(n) == [i \in 1 .. n |-> 0]

\* the k-byte little-endian encoding of n (used to build images)
LE(n, k) == [j \in 1 .. k |-> (n \div Pow2(8 * (j - 1))) % 256]

----------------------------------------------------------------------------
(* Byte readers.  data[p] of the C code is At(data, p, junk): a read at or *)
(* beyond the end of the buffer is undefined behaviour and yields junk,    *)
(* whatever happens to lie behind the buffer.                              *)

At(data, p, junk) == IF p < Len(data) THEN data[p + 1] ELSE junk

read24(data, p, junk) ==
    At(data, p, junk) + At(data, p + 1, junk) * 256
        + At(data, p + 2, junk) * 65536

\* the top byte is split so that no intermediate value exceeds 2^31 - 1;
\* inputs keep the top byte below 128
read32(data, p, junk) ==
    At(data, p, junk) + At(data, p + 1, junk) * 256
        + At(data, p + 2, junk) * 65536 + At(data, p + 3, junk) * 16777216

\* unsigned x * 512 in 32-bit unsigned arithmetic, then widened to off_t:
\* (x * 2^9) mod 2^32 = (x mod 2^23) * 2^9
UMul512(x) == (x % Pow2(UnsignedBits - 9)) * SectorSize

----------------------------------------------------------------------------
(* Names *)

\* "Parsons Engin." and "Zip Technolog." with the literal's terminating NUL:
\* memcmp compares 15 bytes
FocusSig == <<80, 97, 114, 115, 111, 110, 115, 32, 69, 110, 103, 105, 110, 46, 0>>
ZipSig   == <<90, 105, 112, 32, 84, 101, 99, 104, 110, 111, 108, 111, 103, 46, 0>>

\* std::to_string for a positive int
RECURSIVE to_string(_)
to_string(n) ==
    IF n < 10 THEN <<48 + n>> ELSE Append(to_string(n \div 10), 48 + (n % 10))

\* "MicroDrive" followed by the drive digit and '-'
MicroDrivePrefix(d) ==
    <<77, 105, 99, 114, 111, 68, 114, 105, 118, 101, 48 + d, 45>>

\* while (!name.empty() && name.back() == 0x00) name.pop_back();
RECURSIVE StripTrailingNul(_)
StripTrailingNul(s) ==
    IF s # <<>> /\ s[Len(s)] = 0
    THEN StripTrailingNul(SubSeq(s, 1, Len(s) - 1))
    ELSE s

\* the C string a std::string's c_str() yields: the bytes before the first NUL
RECURSIVE c_str(_)
c_str(s) ==
    IF s = <<>> \/ s[1] = 0 THEN <<>> ELSE <<s[1]>> \o c_str(Tail(s))

----------------------------------------------------------------------------
(* Detectors *)

is_microdrive(data) ==
    /\ At(data, 0, 0) = 202
    /\ At(data, 1, 0) = 204
    /\ read32(data, 32, 0) = 256

MemEq15(data, sig) == \A i \in 0 .. 14 : At(data, i, 0) = sig[i + 1]

is_focus(data) == MemEq15(data, FocusSig)

is_zip_never(data) == FALSE
is_zip(data) == MemEq15(data, ZipSig)

----------------------------------------------------------------------------
(* Decoders.  Each returns the entries it appends to files, in order. *)

file_info(name, start, size) == [name |-> name, start |-> start, size |-> size]

\* one loop of parse_microdrive: drive d, count at pcountAt, start table at
\* startAt, count table at countAt
MicroDriveLoop(data, d, pcountAt, startAt, countAt, junk) ==
    [i \in 1 .. At(data, pcountAt, junk) |->
        file_info(MicroDrivePrefix(d) \o to_string(i),
                  UMul512(read32(data, startAt + (i - 1) * 4, junk)),
                  UMul512(read24(data, countAt + (i - 1) * 4, junk)))]

parse_microdrive_swapped(data, junk) ==
    MicroDriveLoop(data, 2, 13, 128, 160, junk)
        \o MicroDriveLoop(data, 1, 12, 32, 64, junk)
parse_microdrive(data, junk) ==
    MicroDriveLoop(data, 1, 12, 32, 64, junk)
        \o MicroDriveLoop(data, 2, 13, 128, 160, junk)

FocusName(data, i, junk) ==
    StripTrailingNul([j \in 1 .. 32 |-> At(data, 512 + 32 + 32 * (i - 1) + (j - 1), junk)])

parse_focus(data, junk) ==
    [i \in 1 .. At(data, 15, junk) |->
        file_info(FocusName(data, i, junk),
                  UMul512(read32(data, 32 + 16 * (i - 1), junk)),
                  UMul512(read32(data, 32 + 16 * (i - 1) + 4, junk)))]

\* The positions of data that the decoders read, 0-based.
\* one loop of parse_microdrive: the count byte, and per entry the four
\* bytes of read32 and the three of read24
MicroDriveLoopReads(data, pcountAt, startAt, countAt) ==
    {pcountAt} \cup
    UNION {(startAt + (i - 1) * 4 .. startAt + (i - 1) * 4 + 3)
               \cup (countAt + (i - 1) * 4 .. countAt + (i - 1) * 4 + 2) :
           i \in 1 .. At(data, pcountAt, 0)}

MicroDriveReads(data) ==
    MicroDriveLoopReads(data, 12, 32, 64)
        \cup MicroDriveLoopReads(data, 13, 128, 160)

\* parse_focus: the count byte, and per entry the 32 bytes from name_ptr
\* and the two read32 at size_ptr
FocusReads(data) ==
    {15} \cup
    UNION {(512 + 32 + 32 * (i - 1) .. 512 + 32 + 32 * (i - 1) + 31)
               \cup (32 + 16 * (i - 1) .. 32 + 16 * (i - 1) + 7) :
           i \in 1 .. At(data, 15, 0)}

----------------------------------------------------------------------------
(* The backing store: a regular file, or a character device. *)

\* file_size(fd): st_size of a regular file, -1 for what is neither a
\* regular file nor a block device
file_size(kind, d) == IF kind = "reg" THEN Len(d) ELSE -1

\* pread(fd, buf, len, pos): the bytes transferred, or a negative errno
pread(mode, d, len, pos) ==
    IF mode = "closed" THEN [ret |-> -EBADF, data |-> <<>>]
    ELSE IF pos < 0 THEN [ret |-> -EINVAL, data |-> <<>>]
    ELSE LET got == SubSeq(d, pos + 1, Min(pos + len, Len(d)))
         IN  [ret |-> Len(got), data |-> got]

\* pwrite(fd, buf, len, pos): the store afterwards and the count, or a
\* negative errno.  A regular file grows, zero-filled, when written past
\* its end.
pwrite(mode, d, buf, pos) ==
    IF mode # "O_RDWR" THEN [ret |-> -EBADF, disk |-> d]
    ELSE IF pos < 0 THEN [ret |-> -EINVAL, disk |-> d]
    ELSE IF buf = <<>> THEN [ret |-> 0, disk |-> d]
    ELSE [ret  |-> Len(buf),
          disk |-> (IF pos <= Len(d) THEN SubSeq(d, 1, pos)
                    ELSE d \o Zeros(pos - Len(d)))
                   \o buf
                   \o SubSeq(d, pos + Len(buf) + 1, Len(d))]

----------------------------------------------------------------------------
(* File operations *)

NoIO == [kind |-> "none", pos |-> 0, len |-> 0]
NoStat == [mode |-> "none", nlink |-> 0, size |-> 0]

\* what a handler reports: its return value and what it did
Result(ret, entry, io, data, names, st, ub) ==
    [ret |-> ret, entry |-> entry, io |-> io, data |-> data,
     names |-> names, st |-> st, ub |-> ub]

Fail(errno, entry) == Result(-errno, entry, NoIO, <<>>, <<>>, NoStat, FALSE)

\* std::find(files.begin(), files.end(), spath): the index of the first
\* entry whose name equals spath, 0 for files.end()
Find(fs, spath) ==
    IF \E i \in 1 .. Len(fs) : fs[i].name = spath
    THEN CHOOSE i \in 1 .. Len(fs) :
            /\ fs[i].name = spath
            /\ \A j \in 1 .. i - 1 : fs[j].name # spath
    ELSE 0

\* offset + size > f.size, where offset + size is computed in size_t
\* (64-bit unsigned).  A negative offset converts to 2^64 + offset: when the
\* mathematical sum is still negative the unsigned sum is 2^64 + sum, above
\* every f.size; when it is not, the sum wraps to the mathematical sum.
Overruns(offset, size, fsize) ==
    LET sum == offset + size
    IN  IF sum < 0 THEN TRUE ELSE sum > fsize

\* if (offset + size > f.size) size = f.size - offset;
Clamp(offset, size, fsize) ==
    IF Overruns(offset, size, fsize) THEN fsize - offset ELSE size

\* if (offset >= f.size): the request starts at or behind the entry's end
PastEndOnly(offset, fsize) == offset > fsize
AtOrPastEnd(offset, fsize) == offset >= fsize

\* f.start + offset, the position part_read gives pread
ReadPosNoStart(fs, e, offset) == offset
ReadPos(fs, e, offset) == fs[e].start + offset

\* f.start + offset, the position part_write gives pwrite
WritePosNoStart(fs, e, offset) == offset
WritePos(fs, e, offset) == fs[e].start + offset

part_open(fs, path) ==
    IF Find(fs, path) = 0 THEN Fail(ENOENT, 0)
    ELSE Result(0, Find(fs, path), NoIO, <<>>, <<>>, NoStat, FALSE)

\* regular files are 0444 in main.cpp and 0666 in part_000
part_getattr(b, fs, path) ==
    IF path = <<>>
    THEN Result(0, 0, NoIO, <<>>, <<>>,
                [mode |-> "S_IFDIR|0755", nlink |-> 2 + Len(fs), size |-> 0], FALSE)
    ELSE IF Find(fs, path) = 0 THEN Fail(ENOENT, 0)
    ELSE Result(0, Find(fs, path), NoIO, <<>>, <<>>,
                [mode  |-> IF b = "main" THEN "S_IFREG|0444" ELSE "S_IFREG|0666",
                 nlink |-> 1,
                 size  |-> fs[Find(fs, path)].size], FALSE)

\* "." and ".."
Dot == <<46>>
DotDot == <<46, 46>>

\* filler() is given f.name.c_str()
part_readdir(fs, path) ==
    IF path # <<>> THEN Fail(ENOENT, 0)
    ELSE Result(0, 0, NoIO, <<>>,
                <<Dot, DotDot>> \o [i \in 1 .. Len(fs) |-> c_str(fs[i].name)],
                NoStat, FALSE)

\* ub: the clamped size exceeds the caller's buffer of size bytes.  The
\* handlers return ssize_t as int; every count of the model fits.
part_read(mode, d, fs, path, size, offset) ==
    LET e == Find(fs, path)
    IN  IF e = 0 THEN Fail(ENOENT, 0)
        ELSE IF AtOrPastEnd(offset, fs[e].size)
             THEN Result(0, e, NoIO, <<>>, <<>>, NoStat, FALSE)
        ELSE LET n == Clamp(offset, size, fs[e].size)
                 r == pread(mode, d, n, ReadPos(fs, e, offset))
             IN  Result(r.ret, e,
                        [kind |-> "pread", pos |-> ReadPos(fs, e, offset), len |-> n],
                        r.data, <<>>, NoStat, n > size)

\* the bytes pwrite takes from buf: the first n of them, and junk behind
\* the buffer when the clamped size exceeds it
WriteBuf(buf, n, junk) ==
    IF n <= Len(buf) THEN SubSeq(buf, 1, n)
    ELSE buf \o [i \in 1 .. n - Len(buf) |-> junk]

part_write(mode, d, fs, path, buf, offset, junk) ==
    LET e == Find(fs, path)
    IN  IF e = 0 THEN [res |-> Fail(ENOENT, 0), disk |-> d]
        ELSE IF AtOrPastEnd(offset, fs[e].size)
             THEN [res |-> Fail(ENOSPC, e), disk |-> d]
        ELSE LET n == Clamp(offset, Len(buf), fs[e].size)
                 b == WriteBuf(buf, n, junk)
                 w == pwrite(mode, d, b, WritePos(fs, e, offset))
             IN  [res  |-> Result(w.ret, e,
                                  [kind |-> "pwrite", pos |-> WritePos(fs, e, offset), len |-> n],
                                  IF w.ret > 0 THEN SubSeq(b, 1, w.ret) ELSE <<>>,
                                  <<>>, NoStat, n > Len(buf)),
                  disk |-> w.disk]

part_fsync(mode) ==
    IF mode = "closed" THEN Fail(EBADF, 0)
    ELSE Result(0, 0, [kind |-> "fsync", pos |-> 0, len |-> 0], <<>>, <<>>, NoStat, FALSE)

----------------------------------------------------------------------------
(* Disk images the runs start from *)

\* the byte the images hold at position i of the data area
Fill(i) == (i % 251) + 1

\* a Focus / Zip image of total bytes: signature, count byte, extent
\* records <<start, count>> from 0x20, 32-byte name fields from 512 + 0x20
FocusImage(sig, count, names, extents, total) ==
    [p \in 1 .. total |->
        LET i == p - 1
        IN  IF i < 15 THEN sig[i + 1]
            ELSE IF i = 15 THEN count
            ELSE IF i >= 32 /\ i < 32 + 16 * Len(extents)
                 THEN LET k == ((i - 32) \div 16) + 1
                          o == (i - 32) % 16
                      IN  IF o < 4 THEN LE(extents[k][1], 4)[o + 1]
                          ELSE IF o < 8 THEN LE(extents[k][2], 4)[o - 3]
                          ELSE 0
            ELSE IF i >= 544 /\ i < 544 + 32 * Len(names)
                 THEN LET k == ((i - 544) \div 32) + 1
                          o == (i - 544) % 32
                      IN  IF o < Len(names[k]) THEN names[k][o + 1] ELSE 0
            ELSE IF i >= HeaderSize THEN Fill(i)
            ELSE 0]

\* a MicroDrive image: 0xCA 0xCC, the two counts at 0x0C and 0x0D, drive 1
\* tables at 0x20 / 0x40, drive 2 tables at 0x80 / 0xA0; t1 and t2 are
\* sequences of <<start, count>>
MicroDriveImage(n1, n2, t1, t2, total) ==
    [p \in 1 .. total |->
        LET i == p - 1
            Slot(t, base, f, w) ==
                LET k == ((i - base) \div 4) + 1
                    o == (i - base) % 4
                IN  IF o < w THEN LE(t[k][f], w)[o + 1] ELSE 0
        IN  IF i = 0 THEN 202
            ELSE IF i = 1 THEN 204
            ELSE IF i = 12 THEN n1
            ELSE IF i = 13 THEN n2
            ELSE IF i >= 32 /\ i < 32 + 4 * Len(t1) THEN Slot(t1, 32, 1, 4)
            ELSE IF i >= 64 /\ i < 64 + 4 * Len(t1) THEN Slot(t1, 64, 2, 3)
            ELSE IF i >= 128 /\ i < 128 + 4 * Len(t2) THEN Slot(t2, 128, 1, 4)
            ELSE IF i >= 160 /\ i < 160 + 4 * Len(t2) THEN Slot(t2, 160, 2, 3)
            ELSE IF i >= HeaderSize THEN Fill(i)
            ELSE 0]

NameVOL1 == <<86, 79, 76, 49>>
NameA    == <<65>>
NameB    == <<66>>
NameANulC == <<65, 0, 67>>
NameP    == <<80>>
NameLAST == <<76, 65, 83, 84>>
NameNope == <<110, 111, 112, 101>>

\* Focus, one partition VOL1 at sectors 1..2, inside a 4-sector store
ImgFocusVol1 == FocusImage(FocusSig, 1, <<NameVOL1>>, <<<<1, 2>>>>, 2048)

\* Zip, A at sector 3, B at sectors 4..5 of a 5-sector store (B runs past
\* the end), and a third entry whose name holds an embedded NUL
ImgZipAB ==
    FocusImage(ZipSig, 3, <<NameA, NameB, NameANulC>>,
               <<<<3, 1>>, <<4, 2>>, <<1, 1>>>>, 2560)

\* Focus, count byte 32: the 32nd name field lies at 1536..1567, behind the
\* three sectors that setup reads.  All entries but the last are named P.
ImgFocus32 ==
    FocusImage(FocusSig, 32,
               [k \in 1 .. 32 |-> IF k = 32 THEN NameLAST ELSE NameP],
               [k \in 1 .. 32 |-> IF k = 1 THEN <<3, 1>> ELSE <<1, 2>>], 2048)

\* "Parsons Engin. ": byte 14 is a space, not the NUL
ImgFocusBadSig ==
    FocusImage([k \in 1 .. 15 |-> IF k = 15 THEN 32 ELSE FocusSig[k]],
               1, <<NameVOL1>>, <<<<1, 2>>>>, 2048)

\* MicroDrive, two partitions on drive 1 (the first at sector 256), one on
\* drive 2 whose start sector 2^23 + 3 does not fit 32 bits once multiplied
ImgMicro ==
    MicroDriveImage(2, 1, <<<<256, 50>>, <<200, 10>>>>, <<<<8388611, 1>>>>, 2048)

\* 0xCA 0xCC, but the first start sector is 100
ImgMicro100 ==
    MicroDriveImage(2, 0, <<<<100, 50>>, <<200, 10>>>>, <<>>, 2048)

ImgBlank == Zeros(2048)

\* fewer than three sectors
ImgShort == SubSeq(ImgFocusVol1, 1, 1000)

\* not a whole number of sectors
ImgOdd == ImgFocusVol1 \o [k \in 1 .. 100 |-> Fill(k)]

Images == {ImgFocusVol1, ImgZipAB, ImgFocus32, ImgFocusBadSig, ImgMicro,
           ImgMicro100, ImgBlank, ImgShort, ImgOdd}

Builds == {"main", "part"}

Config(b, rw, mp, op, kind, img) ==
    [build |-> b, rw |-> rw, mountpoint |-> mp, openable |-> op,
     kind |-> kind, image |-> img]

Configs ==
    {Config(b, FALSE, TRUE, TRUE, "reg", img) : b \in Builds, img \in Images}
    \cup {Config(b, TRUE, TRUE, TRUE, "reg", img) :
            b \in Builds, img \in {ImgFocusVol1, ImgZipAB, ImgOdd}}
    \cup {Config(b, rw, FALSE, TRUE, "reg", ImgFocusVol1) : b \in Builds, rw \in BOOLEAN}
    \cup {Config(b, rw, TRUE, FALSE, "reg", ImgFocusVol1) : b \in Builds, rw \in BOOLEAN}
    \cup {Config(b, FALSE, TRUE, TRUE, "chr", ImgFocusVol1) : b \in Builds}

\* what may lie behind a buffer that is read past its end
JunkBytes == {0, 88}

----------------------------------------------------------------------------
(* Start-up *)

Fatal == [ok |-> FALSE, fd |-> "closed", files |-> <<>>, total_blocks |-> 0]

Started(mode, fs, blocks) ==
    [ok |-> TRUE, fd |-> mode, files |-> fs, total_blocks |-> blocks]

OpenModeAlwaysRW(rw) == "O_RDWR"
OpenMode(rw) == IF rw THEN "O_RDWR" ELSE "O_RDONLY"

\* the detectors in setup's order; buffer is the three sectors read
Decode(mode, buffer, blocks, junk) ==
    IF is_focus(buffer) \/ is_zip(buffer)
    THEN Started(mode, parse_focus(buffer, junk), blocks)
    ELSE IF is_microdrive(buffer)
    THEN Started(mode, parse_microdrive(buffer, junk), blocks)
    ELSE Fatal

\* the positions of buffer that the decoder chosen by Decode reads
DecoderReads(buffer) ==
    IF is_focus(buffer) \/ is_zip(buffer) THEN FocusReads(buffer)
    ELSE IF is_microdrive(buffer) THEN MicroDriveReads(buffer)
    ELSE {}

\* setup() of src/main.cpp: err() and errx() end the process.  read() is
\* taken to deliver the bytes the store holds, fewer than three sectors
\* only when the store is shorter.
setup_main(rw, st, d, junk) ==
    IF ~st.openable THEN Fatal
    ELSE IF Len(d) < HeaderSize THEN Fatal
    ELSE Decode(OpenMode(rw), SubSeq(d, 1, HeaderSize), 0, junk)

\* setup() of src/unnamed/part_000
setup_part(rw, st, d, junk) ==
    IF ~st.openable THEN Fatal
    ELSE IF Len(d) < HeaderSize THEN Fatal
    ELSE IF file_size(st.kind, d) = -1 THEN Fatal
    ELSE IF file_size(st.kind, d) % SectorSize # 0 THEN Fatal
    ELSE Decode(OpenMode(rw), SubSeq(d, 1, HeaderSize),
                file_size(st.kind, d) \div SectorSize, junk)

setup(b, rw, st, d, junk) ==
    IF b = "main" THEN setup_main(rw, st, d, junk) ELSE setup_part(rw, st, d, junk)

\* The table fuse_main is given.  main.cpp initialises
\* focus_filesystem_operations statically.  part_000 declares
\* part_operations zero-initialised and assigns its members at the end of
\* setup(), behind the two "return 0" and the errx(): no run reaches the
\* assignments, so the table keeps its initial value.
StaticOperations(b) ==
    IF b = "main" THEN {"getattr", "open", "read", "write", "readdir"} ELSE {}

OperationsAfterSetup(b, ops) == ops

NoResult == Result(0, 0, NoIO, <<>>, <<>>, NoStat, FALSE)

Request(req, handled, path, size, offset, buf, res) ==
    [req |-> req, handled |-> handled, path |-> path, size |-> size,
     offset |-> offset, buf |-> buf, res |-> res]

NoRequest == Request("none", FALSE, <<>>, 0, 0, <<>>, NoResult)

Init ==
    \E c \in Configs :
        /\ build = c.build
        /\ options = [rw |-> c.rw, mountpoint |-> c.mountpoint]
        /\ store = [openable |-> c.openable, kind |-> c.kind]
        /\ disk = c.image
        /\ pc = "main"
        /\ exitcode = -1
        /\ fd = "closed"
        /\ files = <<>>
        /\ total_blocks = 0
        /\ part_operations = StaticOperations(c.build)
        /\ last = NoRequest
        /\ lastw = NoRequest
        /\ nwrites = 0

\* main() up to the return of setup()
Setup ==
    /\ pc = "main"
    /\ \E junk \in JunkBytes :
          LET r == setup(build, options.rw, store, disk, junk)
          IN  /\ fd' = r.fd
              /\ files' = r.files
              /\ total_blocks' = r.total_blocks
              /\ pc' = IF r.ok THEN "setup_done" ELSE "exit"
              /\ exitcode' = IF r.ok THEN -1 ELSE 1
    /\ part_operations' = OperationsAfterSetup(build, part_operations)
    /\ UNCHANGED <<build, options, store, disk, last, lastw, nwrites>>

\* main() from the return of setup() to the start of fuse_main's loop;
\* without a mount point help(1) ends the process (non-Apple builds)
Mount ==
    /\ pc = "setup_done"
    /\ IF options.mountpoint
       THEN /\ pc' = "serving"
            /\ UNCHANGED <<exitcode, fd>>
       ELSE /\ pc' = "exit"
            /\ exitcode' = 1
            /\ fd' = "closed"
    /\ UNCHANGED <<build, options, store, disk, files, total_blocks,
                   part_operations, last, lastw, nwrites>>

\* fuse_main returns, main closes fd and returns
Unmount ==
    /\ pc = "serving"
    /\ last = NoRequest
    /\ pc' = "exit"
    /\ exitcode' = 0
    /\ fd' = "closed"
    /\ UNCHANGED <<build, options, store, disk, files, total_blocks,
                   part_operations, last, lastw, nwrites>>

----------------------------------------------------------------------------
(* The dispatch loop takes a request, calls the handler the table holds   *)
(* for it and sends the result back (Reply).  A request whose member of   *)
(* the table is null is answered -ENOSYS by the library and reaches no    *)
(* handler.  The paths are given without their leading '/', as the        *)
(* handlers' spath.                                                       *)

Idle == pc = "serving" /\ last = NoRequest

ReqPaths == {c_str(files[i].name) : i \in 1 .. Len(files)} \cup {<<>>, NameNope}

\* sizes and offsets around the ends of the entry the path names
ReqOffsets(path) ==
    {-1, 0, 1} \cup
    (IF Find(files, path) = 0 THEN {}
     ELSE {files[Find(files, path)].size + k : k \in {-1, 0, 1}})

ReqSizes(path) ==
    {0, 1, 2} \cup
    (IF Find(files, path) = 0 THEN {} ELSE {files[Find(files, path)].size})

WriteBufs == {<<>>, <<170>>, <<170, 187>>}

Answer(req, path, size, offset, buf, res) ==
    IF req \in part_operations
    THEN Request(req, TRUE, path, size, offset, buf, res)
    ELSE Request(req, FALSE, path, size, offset, buf, Fail(ENOSYS, 0))

Frame == UNCHANGED <<build, options, store, pc, exitcode, fd, files,
                     total_blocks, part_operations>>

Getattr ==
    /\ Idle
    /\ \E path \in ReqPaths :
          last' = Answer("getattr", path, 0, 0, <<>>, part_getattr(build, files, path))
    /\ UNCHANGED <<disk, lastw, nwrites>>
    /\ Frame

Readdir ==
    /\ Idle
    /\ \E path \in ReqPaths :
          last' = Answer("readdir", path, 0, 0, <<>>, part_readdir(files, path))
    /\ UNCHANGED <<disk, lastw, nwrites>>
    /\ Frame

Open ==
    /\ Idle
    /\ \E path \in ReqPaths :
          last' = Answer("open", path, 0, 0, <<>>, part_open(files, path))
    /\ UNCHANGED <<disk, lastw, nwrites>>
    /\ Frame

\* part_read with the I/O call of part_write: the bytes of the caller's
\* buffer go to the store
ReadCallsPwrite ==
    /\ Idle
    /\ \E path \in ReqPaths :
       \E size \in ReqSizes(path), offset \in ReqOffsets(path), junk \in JunkBytes :
          LET w == part_write(fd, disk, files, path,
                              [k \in 1 .. size |-> junk], offset, junk)
          IN  /\ last' = Answer("read", path, size, offset, <<>>, w.res)
              /\ disk' = IF "read" \in part_operations THEN w.disk ELSE disk
    /\ UNCHANGED <<lastw, nwrites>>
    /\ Frame

Read ==
    /\ Idle
    /\ \E path \in ReqPaths :
       \E size \in ReqSizes(path), offset \in ReqOffsets(path) :
          last' = Answer("read", path, size, offset, <<>>,
                         part_read(fd, disk, files, path, size, offset))
    /\ UNCHANGED <<disk, lastw, nwrites>>
    /\ Frame

Write ==
    /\ Idle
    /\ \E path \in ReqPaths :
       \E buf \in WriteBufs, offset \in ReqOffsets(path), junk \in JunkBytes :
          LET w == part_write(fd, disk, files, path, buf, offset, junk)
              moved == "write" \in part_operations /\ w.res.ret > 0
          IN  /\ moved => nwrites < MaxWrites
              /\ last' = Answer("write", path, Len(buf), offset, buf, w.res)
              /\ disk' = IF "write" \in part_operations THEN w.disk ELSE disk
              /\ lastw' = IF moved THEN last' ELSE lastw
              /\ nwrites' = IF moved THEN nwrites + 1 ELSE nwrites
    /\ Frame

Fsync ==
    /\ Idle
    /\ last' = Answer("fsync", <<>>, 0, 0, <<>>, part_fsync(fd))
    /\ UNCHANGED <<disk, lastw, nwrites>>
    /\ Frame

Reply ==
    /\ pc = "serving"
    /\ last # NoRequest
    /\ last' = NoRequest
    /\ UNCHANGED <<disk, lastw, nwrites>>
    /\ Frame

Next ==
    \/ Setup
    \/ Mount
    \/ Unmount
    \/ Getattr
    \/ Readdir
    \/ Open
    \/ Read
    \/ Write
    \/ Fsync
    \/ Reply

Spec == Init /\ [][Next]_vars

----------------------------------------------------------------------------
(* Properties *)

\* the request being answered reached part_read / part_write and named an
\* entry of the table (the first one of that name)
ReadRan  == last.handled /\ last.req = "read" /\ last.res.entry # 0
WriteRan == last.handled /\ last.req = "write" /\ last.res.entry # 0

\* the entry the request being answered resolved to
Entry == files[last.res.entry]

\* the store's bytes in the window of entry f
Window(f) == SubSeq(disk, f.start + 1, f.start + f.size)

\* C1: every positioned I/O that Read or Write issues for an entry, for
\* every offset and size, lies inside the entry's window: its position is
\* start_offset + offset with 0 <= offset < size_bytes and its length is at
\* most size_bytes - offset.
C1_IOInsideWindow ==
    (ReadRan \/ WriteRan) /\ last.res.io.kind \in {"pread", "pwrite"} =>
        /\ last.res.io.pos = Entry.start + last.offset
        /\ 0 <= last.offset
        /\ last.offset < Entry.size
        /\ last.res.io.len <= Entry.size - last.offset

\* C2 as stated: Read(name, size_bytes, 0) returns size_bytes bytes, equal
\* to the store's bytes in the entry's window, for every decoded entry.
C2_FullReadAnyEntry ==
    ReadRan /\ last.offset = 0 /\ last.size = Entry.size =>
        /\ last.res.ret = Entry.size
        /\ last.res.data = Window(Entry)

\* C2 (amended): for every entry whose window lies inside the backing
\* store, Read(name, size_bytes, 0) returns size_bytes bytes, equal to the
\* store's bytes in [start_offset, start_offset + size_bytes).
C2_FullReadInsideStore ==
    /\ ReadRan
    /\ last.offset = 0
    /\ last.size = Entry.size
    /\ Entry.start + Entry.size <= Len(disk)
    => /\ last.res.ret = Entry.size
       /\ last.res.data = Window(Entry)

C2_Witness ==
    /\ ReadRan
    /\ last.offset = 0
    /\ last.size = Entry.size
    /\ Entry.size > 0
    /\ Entry.start + Entry.size <= Len(disk)
    /\ last.res.ret = Entry.size

\* C3: a request at an offset >= size_bytes issues no I/O and leaves the
\* store unchanged; Read returns 0, Write fails with ENOSPC.
C3_PastEndNoIO ==
    [][ /\ last'.handled
        /\ last'.req \in {"read", "write"}
        /\ last'.res.entry # 0
        /\ last'.offset >= files[last'.res.entry].size
        => /\ disk' = disk
           /\ last'.res.io = NoIO
           /\ last'.res.data = <<>>
           /\ last'.req = "read" => last'.res.ret = 0
           /\ last'.req = "write" => last'.res.ret = -ENOSPC ]_vars

C3_Witness ==
    /\ WriteRan
    /\ options.rw
    /\ last.buf # <<>>
    /\ last.offset >= Entry.size
    /\ last.res.ret = -ENOSPC

\* C4: in read/write mode, a Write at an offset < size_bytes that returns n
\* bytes, followed with no write in between by Read(name, n, offset),
\* reads back the n bytes written.
C4_RoundTrip ==
    /\ options.rw
    /\ ReadRan
    /\ lastw # NoRequest
    /\ last.path = lastw.path
    /\ last.offset = lastw.offset
    /\ last.size = lastw.res.ret
    => /\ last.res.ret = lastw.res.ret
       /\ last.res.data = lastw.res.data

C4_Witness ==
    /\ options.rw
    /\ ReadRan
    /\ lastw # NoRequest
    /\ last.path = lastw.path
    /\ last.offset = lastw.offset
    /\ last.size = lastw.res.ret
    /\ lastw.res.data = <<170, 187>>
    /\ last.res.data = <<170, 187>>

\* C5: started without the read/write flag, no step changes a byte of the
\* store; and no step changes the mode.
C5_ReadOnlyStore ==
    [][ /\ options' = options
        /\ ~options.rw => disk' = disk ]_vars

C5_Witness ==
    /\ ~options.rw
    /\ WriteRan
    /\ last.res.io.kind = "pwrite"
    /\ last.res.ret = -EBADF

----------------------------------------------------------------------------
(* Start-up properties.  They are stated on the step that runs setup(),   *)
(* from the bytes of the store as that step finds them.                   *)

\* setup gets as far as the detectors: the store opens, three sectors can
\* be read and, in part_000, the size is known and a sector multiple
Probed ==
    /\ store.openable
    /\ Len(disk) >= HeaderSize
    /\ build = "part" => store.kind = "reg" /\ Len(disk) % SectorSize = 0

\* little-endian fields of the store, at 0-based position p
Field24(d, p) == d[p + 1] + 256 * d[p + 2] + 65536 * d[p + 3]
Field32(d, p) == Field24(d, p) + 16777216 * d[p + 4]

HasFocusOrZipSig(d) == SubSeq(d, 1, 15) \in {FocusSig, ZipSig}
HasMicroDriveMagic(d) == d[1] = 202 /\ d[2] = 204
HasMicroDriveSig(d) == HasMicroDriveMagic(d) /\ Field32(d, 32) = 256

\* x is sectors * 512, for sector numbers whose product fits 32 bits
IsSectors(x, sectors) == sectors < 8388608 => x = sectors * 512

\* C6: the detectors are tried in the order Focus, Zip, MicroDrive and the
\* table is what the first matching detector's decoder yields; when none
\* matches, start-up ends the process with status 1 and an empty table, and
\* a process that has ended takes no further step.
C6_FirstMatchDecodes ==
    [][ /\ pc = "main" /\ Probed =>
            IF HasFocusOrZipSig(disk)
            THEN /\ pc' = "setup_done"
                 /\ \E junk \in JunkBytes :
                       files' = parse_focus(SubSeq(disk, 1, HeaderSize), junk)
            ELSE IF HasMicroDriveSig(disk)
            THEN /\ pc' = "setup_done"
                 /\ \E junk \in JunkBytes :
                       files' = parse_microdrive(SubSeq(disk, 1, HeaderSize), junk)
            ELSE /\ pc' = "exit"
                 /\ exitcode' = 1
                 /\ files' = <<>>
                 /\ last' = NoRequest
        /\ pc # "exit" ]_vars

C6_Witness ==
    /\ pc = "serving"
    /\ SubSeq(disk, 1, 15) = ZipSig
    /\ Len(files) = 3
    /\ last.handled

SixOperations == {"getattr", "readdir", "open", "read", "write", "fsync"}

\* C7: when start-up succeeds, the table given to the dispatch loop holds
\* all six operations.
C7_AllSixRegistered == pc = "serving" => SixOperations \subseteq part_operations

\* C8: a store that cannot be opened, is shorter than three sectors or is
\* not a whole number of sectors ends start-up with status 1 and an empty
\* table, whatever its header.
C8_BadStoreIsFatal ==
    [][ /\ pc = "main"
        /\ \/ ~store.openable
           \/ Len(disk) < HeaderSize
           \/ Len(disk) % SectorSize # 0
        => /\ pc' = "exit"
           /\ exitcode' = 1
           /\ files' = <<>> ]_vars

\* the table a MicroDrive header d describes: drive 1 then drive 2, in
\* index order
MicroDriveEntry(f, d, drive, i, startAt, countAt) ==
    /\ f.name = MicroDrivePrefix(drive) \o to_string(i)
    /\ IsSectors(f.start, Field32(d, startAt + 4 * (i - 1)))
    /\ IsSectors(f.size, Field24(d, countAt + 4 * (i - 1)))

MicroDriveTable(fs, d) ==
    LET n1 == d[13]
        n2 == d[14]
    IN  /\ Len(fs) = n1 + n2
        /\ \A i \in 1 .. n1 : MicroDriveEntry(fs[i], d, 1, i, 32, 64)
        /\ \A i \in 1 .. n2 : MicroDriveEntry(fs[n1 + i], d, 2, i, 128, 160)

MicroDrive1(i) == MicroDrivePrefix(1) \o <<48 + i>>

\* C9 as stated: a header with the MicroDrive magic yields the n1 + n2
\* entries its tables describe; drive-1 entries (100, 50), (200, 10) yield
\* MicroDrive1-1 at 51200 / 25600 and MicroDrive1-2 at 102400 / 5120.
C9_MicroDriveAnyFirstStart ==
    [][ pc = "main" /\ Probed /\ HasMicroDriveMagic(disk) =>
            /\ MicroDriveTable(files', disk)
            /\ disk = ImgMicro100 =>
                  files' = <<file_info(MicroDrive1(1), 51200, 25600),
                             file_info(MicroDrive1(2), 102400, 5120)>> ]_vars

\* C9 (amended): a header the MicroDrive detector accepts (0xCA, 0xCC and
\* 256 at 0x20, so the first start sector of drive 1 is 256) yields the
\* n1 + n2 entries its tables describe; drive-1 entries (256, 50),
\* (200, 10) yield MicroDrive1-1 at 131072 / 25600 and MicroDrive1-2 at
\* 102400 / 5120.
C9_MicroDriveTable ==
    [][ pc = "main" /\ Probed /\ HasMicroDriveSig(disk) =>
            /\ pc' = "setup_done"
            /\ MicroDriveTable(files', disk)
            /\ disk = ImgMicro =>
                  /\ files'[1] = file_info(MicroDrive1(1), 131072, 25600)
                  /\ files'[2] = file_info(MicroDrive1(2), 102400, 5120) ]_vars

C9_Witness ==
    /\ pc = "setup_done"
    /\ disk = ImgMicro
    /\ Len(files) = 3

\* name is the 32-byte field with its trailing NULs, and nothing else,
\* taken off
IsStripped(name, field) ==
    /\ Len(name) <= Len(field)
    /\ SubSeq(field, 1, Len(name)) = name
    /\ \A k \in Len(name) + 1 .. Len(field) : field[k] = 0
    /\ name # <<>> => name[Len(name)] # 0

FocusTable(fs, d) ==
    /\ Len(fs) = d[16]
    /\ \A i \in 1 .. Len(fs) :
          /\ IsStripped(fs[i].name,
                        SubSeq(d, 544 + 32 * (i - 1) + 1, 544 + 32 * i))
          /\ IsSectors(fs[i].start, Field32(d, 32 + 16 * (i - 1)))
          /\ IsSectors(fs[i].size, Field32(d, 32 + 16 * (i - 1) + 4))

\* C10: a header with the Focus or Zip signature and count byte n yields n
\* entries in index order, entry i named by the field at 512 + 0x20 + 32*i
\* without its trailing NULs, its extent read from the record at
\* 0x20 + 16*i; signature "Parsons Engin.", count 1, name VOL1, extent
\* (1, 2) yields the one entry VOL1 at 512, size 1024.
C10_FocusTable ==
    [][ pc = "main" /\ Probed /\ HasFocusOrZipSig(disk) =>
            /\ pc' = "setup_done"
            /\ FocusTable(files', disk)
            /\ disk = ImgFocusVol1 =>
                  files' = <<file_info(NameVOL1, 512, 1024)>> ]_vars

\* x is exactly sectors * 512: a non-negative multiple of 512 whose
\* quotient is the sector number
ExactSectors(x, sectors) ==
    /\ x >= 0
    /\ x % SectorSize = 0
    /\ x \div SectorSize = sectors

\* the start-sector and sector-count fields that entry i of the table
\* decoded from header d is made from
ExtentFields(d, i) ==
    IF HasFocusOrZipSig(d)
    THEN [start |-> Field32(d, 32 + 16 * (i - 1)),
          count |-> Field32(d, 32 + 16 * (i - 1) + 4)]
    ELSE IF i <= d[13]
    THEN [start |-> Field32(d, 32 + 4 * (i - 1)),
          count |-> Field24(d, 64 + 4 * (i - 1))]
    ELSE [start |-> Field32(d, 128 + 4 * (i - d[13] - 1)),
          count |-> Field24(d, 160 + 4 * (i - d[13] - 1))]

\* C11: every entry that start-up emits has start_offset = start_sector *
\* 512 and size_bytes = sector_count * 512 as exact integers, without
\* wrap-around modulo 2^32, and both are non-negative multiples of 512.
C11_ExactOffsets ==
    [][ pc = "main" /\ Probed /\ pc' = "setup_done" =>
            \A i \in 1 .. Len(files') :
                /\ ExactSectors(files'[i].start, ExtentFields(disk, i).start)
                /\ ExactSectors(files'[i].size, ExtentFields(disk, i).count) ]_vars

----------------------------------------------------------------------------
(* Frame of the operations *)

----------------------------------------------------------------------------
(* The probe buffer *)

\* C13: when start-up decodes a table, every byte the chosen decoder reads
\* lies at a position 0 .. 1535 of the three-sector buffer, whatever the
\* count fields of the header hold.
C13_DecoderReadsInsideBuffer ==
    [][ pc = "main" /\ pc' = "setup_done" =>
            DecoderReads(SubSeq(disk, 1, HeaderSize))
                \subseteq 0 .. HeaderSize - 1 ]_vars

====
